---- MODULE Spec2Model ----
(***************************************************************************)
(* Model of runner.py: a local judge that compiles one C++ source file,    *)
(* loads testcases from a msgpack archive (.tc) or from a pair of text     *)
(* files, runs the binary once per testcase under a timeout and prints a   *)
(* summary.                                                                *)
(*                                                                         *)
(* Text is a sequence of one-character strings.  A Python value that may   *)
(* be str, bytes or None is a record [kind, s].  A testcase id is a        *)
(* sequence of decimal digits, compared lexicographically as Python        *)
(* compares str.                                                           *)
(***************************************************************************)
EXTENDS Integers, Sequences, FiniteSets, TLC

VARIABLES
    pc,          \* position in the script: parse_args, compile_code, ...
    exitCode,    \* exit status of the process; meaningful once pc = "exit"
    TC_FILE,     \* "None" or "path" (global set by parse_args)
    TXT_FILES,   \* TRUE iff TXT_INPUT_FILE and TXT_OUTPUT_FILE are both set
    argError,    \* which parser.error parse_args ended in, "" if none
    compileRc,   \* return code of g++; meaningful once compiles > 0
    compiles,    \* number of g++ invocations so far
    loadError,   \* which fatal error load_testcases ended in, "" if none
    loader,      \* "" | "tc" | "txt": branch of load_testcases that returned
    archive,     \* content of the .tc file when it is fixed in advance
    testcases,   \* dict id -> [input, output]
    idx,         \* 1-based position of the for loop in sorted(testcases)
    passed,      \* main's counter
    total,       \* main's total
    results,     \* verdicts of the results run_test returned so far
    last,        \* the most recent execution and the result it produced
    attempts,    \* number of run_test calls
    launched,    \* number of candidate subprocesses launched
    summary,     \* overall status printed by main, "NONE" before
    crashed      \* TRUE after an uncaught exception ended the run

vars == <<pc, exitCode, TC_FILE, TXT_FILES, argError, compileRc, compiles, loadError, loader,
          archive, testcases, idx, passed, total, results, last, attempts,
          launched, summary, crashed>>

(***************************************************************************)
(* Bounds of the model.                                                    *)
(***************************************************************************)
MaxLen == 2       \* longest candidate stdout
MaxEntries == 2   \* most entries of an archive
MaxBlocks == 3    \* most blank-line separated blocks of a text file

(***************************************************************************)
(* Text helpers.                                                           *)
(***************************************************************************)
Whitespace == {" ", "\n"}

RECURSIVE lstrip(_)
lstrip(s) ==
    IF s = <<>> THEN <<>>
    ELSE IF Head(s) \in Whitespace THEN lstrip(Tail(s)) ELSE s

RECURSIVE rstrip(_)
rstrip(s) ==
    IF s = <<>> THEN <<>>
    ELSE IF s[Len(s)] \in Whitespace THEN rstrip(SubSeq(s, 1, Len(s) - 1))
    ELSE s

\* mutant: strips trailing whitespace only
stripTrailingOnly(s) == rstrip(s)

\* str.strip()
strip(s) == rstrip(lstrip(s))

\* index of the first "\n\n" in s at or after i, 0 if none
RECURSIVE findBlank(_, _)
findBlank(s, i) ==
    IF i + 1 > Len(s) THEN 0
    ELSE IF s[i] = "\n" /\ s[i + 1] = "\n" THEN i
    ELSE findBlank(s, i + 1)

\* str.split("\n\n")
RECURSIVE split(_)
split(s) ==
    LET i == findBlank(s, 1) IN
    IF i = 0 THEN <<s>>
    ELSE <<SubSeq(s, 1, i - 1)>> \o split(SubSeq(s, i + 2, Len(s)))

\* str(i) for 1 <= i <= 99, as a sequence of digits
str(i) == IF i < 10 THEN <<i>> ELSE <<i \div 10, i % 10>>

\* Python's str ordering on ids
RECURSIVE LexLess(_, _)
LexLess(a, b) ==
    IF b = <<>> THEN FALSE
    ELSE IF a = <<>> THEN TRUE
    ELSE IF Head(a) # Head(b) THEN Head(a) < Head(b)
    ELSE LexLess(Tail(a), Tail(b))

\* sorted(testcases.items()): the keys (str values) in ascending order
RECURSIVE sorted(_)
sorted(S) ==
    IF S = {} THEN <<>>
    ELSE LET m == CHOOSE x \in S : \A y \in S \ {x} : LexLess(x.s, y.s)
         IN <<m>> \o sorted(S \ {m})

(***************************************************************************)
(* Python values: str, bytes, None; a missing dict entry.                  *)
(***************************************************************************)
None == [kind |-> "None", s |-> <<>>]
Absent == [kind |-> "absent", s |-> <<>>]
Str(s) == [kind |-> "str", s |-> s]
Bytes(s) == [kind |-> "bytes", s |-> s]

\* x.decode() if isinstance(x, bytes) else x
decode(x) == IF x.kind = "bytes" THEN Str(x.s) ELSE x

\* truth value of a str, bytes or None
Truthy(x) == x.kind \in {"str", "bytes"} /\ Len(x.s) > 0

\* v.get(f)
get(v, f) == IF v[f] = Absent THEN None ELSE v[f]

\* a or b
or(a, b) == IF Truthy(a) THEN a ELSE b

\* d[k] = val on a dict
Put(d, k, val) == [x \in (DOMAIN d) \cup {k} |-> IF x = k THEN val ELSE d[x]]

EmptyDict == [x \in {} |-> None]

(***************************************************************************)
(* Inputs the environment supplies: archives, text files, candidate        *)
(* behaviour.                                                              *)
(***************************************************************************)
Ids == {<<1>>, <<2>>}

\* archive keys arrive as text or as byte-encoded text
RawKeys == {Str(i) : i \in Ids} \cup {Bytes(i) : i \in Ids}

\* the input side of an archive value: field "input" and field b"input"
InputFields ==
    { [input |-> Absent, b_input |-> Absent],
      [input |-> Str(<<"a">>), b_input |-> Absent],
      [input |-> Absent, b_input |-> Bytes(<<"a">>)],
      [input |-> Str(<<>>), b_input |-> Absent] }

\* the output side: field "output" and field b"output"
OutputFields ==
    { [output |-> Absent, b_output |-> Absent],
      [output |-> Str(<<"a">>), b_output |-> Absent],
      [output |-> Str(<<"a", "\n">>), b_output |-> Absent],
      [output |-> Absent, b_output |-> Bytes(<<" ", "a">>)],
      [output |-> Str(<<"a", "b">>), b_output |-> Absent],
      [output |-> Str(<<" ">>), b_output |-> Absent],
      [output |-> Str(<<>>), b_output |-> Bytes(<<"b">>)] }

Values ==
    { [input |-> i.input, b_input |-> i.b_input,
       output |-> o.output, b_output |-> o.b_output] :
      i \in InputFields, o \in OutputFields }

Entries == [k : RawKeys, v : Values]

\* a well-formed archive: a mapping, so no raw key occurs twice; the
\* sequence is the order in which tcs.items() yields the entries
Archives ==
    UNION { { a \in [1..n -> Entries] :
                \A i, j \in 1..n : i # j => a[i].k # a[j].k } :
            n \in 0..MaxEntries }

NoArchive == <<[k |-> None, v |-> None]>>

BlockTexts == {<<"a">>, <<"b">>}

RECURSIVE join(_)
join(bs) ==
    IF Len(bs) = 0 THEN <<>>
    ELSE IF Len(bs) = 1 THEN bs[1]
    ELSE bs[1] \o <<"\n", "\n">> \o join(Tail(bs))

InputFiles ==
    { join([i \in 1..k |-> <<"a">>]) : k \in 1..MaxBlocks } \cup {<<>>}

OutputFiles ==
    { join(bs) \o <<"\n">> :
        bs \in UNION { [1..k -> BlockTexts] : k \in 1..MaxBlocks } }
    \cup { <<>>, <<"a", "\n", "\n", "\n", "b">>, <<" ", "a", " ">> }

StdoutChars == {"a", "b", "\n"}

Stdouts == UNION { [1..n -> StdoutChars] : n \in 0..MaxLen }

(***************************************************************************)
(* load_testcases                                                          *)
(***************************************************************************)
\* mutant: keeps the key as it arrived
rawKey(k) == k

\* key = k.decode() if isinstance(k, bytes) else k
normalizeKey(k) == decode(k)

\* "input" in v or b"input" in v
hasInput(v) == v.b_input # Absent \/ v.input # Absent

\* the dict stored for one archive entry
decodeEntry(v) ==
    LET inp == or(get(v, "input"), get(v, "b_input"))
        out == or(get(v, "output"), get(v, "b_output"))
    IN [input |-> decode(inp), output |-> decode(out)]

\* the for loop over tcs.items(), from entry i on
RECURSIVE decodeFrom(_, _, _)
decodeFrom(tcs, i, decoded) ==
    IF i > Len(tcs) THEN decoded
    ELSE IF hasInput(tcs[i].v)
         THEN decodeFrom(tcs, i + 1,
                         Put(decoded, normalizeKey(tcs[i].k),
                             decodeEntry(tcs[i].v)))
         ELSE decodeFrom(tcs, i + 1, decoded)

decodeArchive(tcs) == decodeFrom(tcs, 1, EmptyDict)

\* the .txt branch once both files are read
splitCases(content) == split(strip(content))

zipCases(inputs, outputs) ==
    [k \in { Str(str(i)) : i \in 1..Len(inputs) } |->
        LET i == CHOOSE j \in 1..Len(inputs) : Str(str(j)) = k
        IN [input |-> Str(strip(inputs[i])), output |-> Str(strip(outputs[i]))]]

(***************************************************************************)
(* run_test                                                                *)
(***************************************************************************)
\* what launching the candidate on one testcase can do
Outcomes(tc) ==
    IF tc.input.kind = "None"
    THEN \* tc["input"].encode() raises inside the try, before the launch
         { [kind |-> "error", launch |-> FALSE, returncode |-> 0,
            stdout |-> <<>>, stderrOk |-> TRUE] }
    ELSE { [kind |-> "timeout", launch |-> TRUE, returncode |-> 0,
            stdout |-> <<>>, stderrOk |-> TRUE] }
         \cup
         { [kind |-> "error", launch |-> l, returncode |-> 0,
            stdout |-> <<>>, stderrOk |-> TRUE] : l \in BOOLEAN }
         \cup
         { [kind |-> "completed", launch |-> TRUE, returncode |-> 0,
            stdout |-> out, stderrOk |-> TRUE] : out \in Stdouts }
         \cup
         { [kind |-> "completed", launch |-> TRUE, returncode |-> 1,
            stdout |-> out, stderrOk |-> ok] :
           out \in Stdouts, ok \in BOOLEAN }

\* verdict = "AC" if output == expected else "WA"
verdictOf(output, expected) == IF output = expected THEN "AC" ELSE "WA"

\* the body of run_test for testcase tc when the launch behaves as o;
\* raised is TRUE when an exception leaves run_test
run_test(tc, o) ==
    LET output == IF o.kind = "completed" THEN strip(o.stdout) ELSE <<>>
        cause0 == IF o.kind = "timeout" THEN "TLE"
                  ELSE IF o.kind = "error" THEN "ERR" ELSE ""
        noExpected == tc.output.kind = "None"
        expected == strip(tc.output.s)
        re == o.kind = "completed" /\ o.returncode # 0 /\ cause0 = ""
        cause == IF re THEN "RE" ELSE cause0
    IN [raised |-> noExpected \/ (re /\ ~o.stderrOk),
        verdict |-> verdictOf(output, expected),
        cause |-> cause,
        output |-> output,
        expected |-> expected]

NoLast == [kind |-> "none", returncode |-> 0, stdout |-> <<>>,
           expectedRaw |-> <<>>, verdict |-> "", cause |-> "",
           counted |-> FALSE]

(***************************************************************************)
(* The script: parse_args(); main()                                        *)
(***************************************************************************)
Init ==
    /\ pc = "parse_args"
    /\ exitCode = 0
    /\ TC_FILE = "None"
    /\ TXT_FILES = FALSE
    /\ argError = ""
    /\ compileRc = 0
    /\ compiles = 0
    /\ loadError = ""
    /\ loader = ""
    /\ archive = NoArchive
    /\ testcases = EmptyDict
    /\ idx = 1
    /\ passed = 0
    /\ total = 0
    /\ results = <<>>
    /\ last = NoLast
    /\ attempts = 0
    /\ launched = 0
    /\ summary = "NONE"
    /\ crashed = FALSE

\* sys.exit(code) / parser.error
Exit(code) == pc' = "exit" /\ exitCode' = code

\* parser.error(...) prints usage and exits with status 2
ParserErrorStatus == 2

parse_args ==
    /\ pc = "parse_args"
    /\ \E sourceExists, tin, tout \in BOOLEAN :
         IF ~sourceExists
         THEN /\ Exit(ParserErrorStatus)
              /\ argError' = "source_missing"
              /\ UNCHANGED <<TC_FILE, TXT_FILES>>
         ELSE IF (tin \/ tout) /\ ~(tin /\ tout)
         THEN /\ Exit(ParserErrorStatus)
              /\ argError' = "one_txt_path"
              /\ TC_FILE' = "path"
              /\ UNCHANGED TXT_FILES
         ELSE /\ pc' = "compile_code"
              /\ argError' = ""
              /\ TC_FILE' = IF tin /\ tout THEN "None" ELSE "path"
              /\ TXT_FILES' = (tin /\ tout)
              /\ UNCHANGED exitCode
    /\ UNCHANGED <<compileRc, compiles, loadError, loader, archive, testcases,
                   idx, passed, total, results, last, attempts, launched,
                   summary, crashed>>

\* mutant: a failed compilation is reported but the run goes on
compileFailedGoesOn(returncode) == "load_testcases"

\* where compile_code leaves the script: sys.exit(1) on a non-zero code
afterCompile(returncode) ==
    IF returncode # 0 THEN "exit" ELSE "load_testcases"

compile_code ==
    /\ pc = "compile_code"
    /\ \E returncode \in {0, 1} :
         /\ compiles' = compiles + 1
         /\ compileRc' = returncode
         /\ pc' = afterCompile(returncode)
         /\ exitCode' = IF returncode # 0 THEN 1 ELSE exitCode
    /\ UNCHANGED <<TC_FILE, TXT_FILES, argError, loadError, loader, archive,
                   testcases, idx, passed, total, results, last, attempts,
                   launched, summary, crashed>>

\* load_testcases ends in sys.exit(1)
LoadFatal(err) ==
    /\ Exit(1)
    /\ loadError' = err
    /\ UNCHANGED <<loader, testcases, total>>

\* load_testcases returned tcs; main lines 276-283
Loaded(branch, tcs) ==
    /\ loader' = branch
    /\ testcases' = tcs
    /\ loadError' = ""
    /\ IF DOMAIN tcs = {}
       THEN /\ Exit(0)
            /\ UNCHANGED total
       ELSE /\ pc' = "run_tests"
            /\ total' = Cardinality(DOMAIN tcs)
            /\ UNCHANGED exitCode

\* the .tc branch on an archive file that exists and holds tcs
loadTc(tcs) == Loaded("tc", decodeArchive(tcs))

load_testcases_tc ==
    /\ pc = "load_testcases"
    /\ TC_FILE # "None"
    /\ archive = NoArchive
    /\ \E exists \in BOOLEAN :
         IF ~exists THEN LoadFatal("archive_missing")
         ELSE \E tcs \in Archives : loadTc(tcs)
    /\ UNCHANGED <<TC_FILE, TXT_FILES, argError, compileRc, compiles, archive,
                   idx, passed, results, last, attempts, launched, summary,
                   crashed>>

load_testcases_txt ==
    /\ pc = "load_testcases"
    /\ TC_FILE = "None"
    /\ IF ~TXT_FILES THEN LoadFatal("txt_paths_missing")
       ELSE \E inExists, outExists \in BOOLEAN :
              IF ~inExists THEN LoadFatal("input_missing")
              ELSE IF ~outExists THEN LoadFatal("output_missing")
              ELSE \E fin \in InputFiles, fout \in OutputFiles :
                     LET inputs == splitCases(fin)
                         outputs == splitCases(fout)
                     IN IF Len(inputs) # Len(outputs)
                        THEN LoadFatal("count_mismatch")
                        ELSE Loaded("txt", zipCases(inputs, outputs))
    /\ UNCHANGED <<TC_FILE, TXT_FILES, argError, compileRc, compiles, archive,
                   idx, passed, results, last, attempts, launched, summary,
                   crashed>>

\* one iteration of the for loop of main: run_test and the accounting
main_loop ==
    /\ pc = "run_tests"
    /\ idx <= total
    /\ LET tc == testcases[sorted(DOMAIN testcases)[idx]] IN
       \E o \in Outcomes(tc) :
         LET r == run_test(tc, o) IN
         /\ attempts' = attempts + 1
         /\ launched' = IF o.launch THEN launched + 1 ELSE launched
         /\ IF r.raised
            THEN /\ Exit(1)
                 /\ crashed' = TRUE
                 /\ UNCHANGED <<idx, passed, results, last>>
            ELSE /\ results' = Append(results, r.verdict)
                 /\ passed' = IF r.verdict = "AC" THEN passed + 1 ELSE passed
                 /\ idx' = idx + 1
                 /\ last' = [kind |-> o.kind, returncode |-> o.returncode,
                             stdout |-> o.stdout,
                             expectedRaw |-> tc.output.s,
                             verdict |-> r.verdict, cause |-> r.cause,
                             counted |-> (r.verdict = "AC")]
                 /\ UNCHANGED <<pc, exitCode, crashed>>
    /\ UNCHANGED <<TC_FILE, TXT_FILES, argError, compileRc, compiles,
                   loadError, loader, archive, testcases, total, summary>>

\* mutant: tests passed > 0 before passed == total
statusAnyPassedFirst(p, n) ==
    IF p > 0 THEN "SOME_FAILED"
    ELSE IF p = n THEN "ALL_PASSED" ELSE "ALL_FAILED"

\* the if / elif / else of the summary
status(p, n) ==
    IF p = n THEN "ALL_PASSED"
    ELSE IF p > 0 THEN "SOME_FAILED" ELSE "ALL_FAILED"

main_summary ==
    /\ pc = "run_tests"
    /\ idx > total
    /\ summary' = status(passed, total)
    /\ Exit(0)
    /\ UNCHANGED <<TC_FILE, TXT_FILES, argError, compileRc, compiles,
                   loadError, loader, archive, testcases, idx, passed, total,
                   results, last, attempts, launched, crashed>>

Next ==
    \/ parse_args
    \/ compile_code
    \/ load_testcases_tc
    \/ load_testcases_txt
    \/ main_loop
    \/ main_summary

Spec == Init /\ [][Next]_vars

(***************************************************************************)
(* The archive loader alone, on an archive fixed in advance.               *)
(***************************************************************************)
InitLoader ==
    /\ pc = "load_testcases"
    /\ exitCode = 0
    /\ TC_FILE = "path"
    /\ TXT_FILES = FALSE
    /\ argError = ""
    /\ compileRc = 0
    /\ compiles = 1
    /\ loadError = ""
    /\ loader = ""
    /\ archive \in Archives
    /\ testcases = EmptyDict
    /\ idx = 1
    /\ passed = 0
    /\ total = 0
    /\ results = <<>>
    /\ last = NoLast
    /\ attempts = 0
    /\ launched = 0
    /\ summary = "NONE"
    /\ crashed = FALSE

load_testcases_file ==
    /\ pc = "load_testcases"
    /\ TC_FILE # "None"
    /\ archive # NoArchive
    /\ loadTc(archive)
    /\ UNCHANGED <<TC_FILE, TXT_FILES, argError, compileRc, compiles, archive,
                   idx, passed, results, last, attempts, launched, summary,
                   crashed>>

NextLoader == load_testcases_file

LoaderSpec == InitLoader /\ [][NextLoader]_vars

(***************************************************************************)
(* Properties.                                                             *)
(***************************************************************************)
\* The verdict strings of the code: "AC" is ACCEPTED, "WA" is WRONG_ANSWER.

\* C1: a candidate that finishes within the timeout with a non-zero exit
\* code is classified as a runtime error (cause RE), is never ACCEPTED even
\* when its trimmed stdout equals the trimmed expected output, and is not
\* added to the passed count.
C1_NonZeroExitIsRuntimeError ==
    (last.kind = "completed" /\ last.returncode # 0)
        => (last.cause = "RE" /\ last.verdict # "AC" /\ ~last.counted)

\* C2: a candidate whose wait exceeds the timeout is classified as time
\* limit exceeded (cause TLE), is never ACCEPTED whatever the expected
\* output is, and is not added to the passed count.
C2_TimeoutIsNeverAccepted ==
    last.kind = "timeout"
        => (last.cause = "TLE" /\ last.verdict # "AC" /\ ~last.counted)

\* C3: in a run whose testcase loading ends in a fatal error the compiler
\* is never invoked.
C3_NoCompileBeforeFatalLoad ==
    loadError # "" => compiles = 0

\* C4: when the compiler returns a non-zero code the program exits with
\* code 1 and no testcase is attempted: no run_test call, no candidate
\* launched, no result, no summary.
C4_CompileFailureStopsRun ==
    (compiles > 0 /\ compileRc # 0)
        => /\ pc = "exit"
           /\ exitCode = 1
           /\ attempts = 0
           /\ launched = 0
           /\ results = <<>>
           /\ last = NoLast
           /\ summary = "NONE"

C4_Witness ==
    compileRc = 1 /\ compiles = 1 /\ pc = "exit" /\ exitCode = 1

\* C5: after a successful build and a load of n >= 1 testcases the run never
\* aborts because of one testcase: every run_test call returns a result, and
\* when the program ends every testcase was attempted exactly once and the
\* summary was rendered.
C5_NoTestcaseAbortsRun ==
    (compiles > 0 /\ compileRc = 0 /\ loader # "" /\ total >= 1)
        => /\ ~crashed
           /\ Len(results) = attempts
           /\ pc = "exit" =>
                (attempts = total /\ Len(results) = total /\ summary # "NONE")

\* C6: a testcase whose launch or communication fails unexpectedly is
\* classified as an internal error (cause ERR), is never ACCEPTED and is not
\* added to the passed count.
C6_LaunchFailureIsInternalError ==
    last.kind = "error"
        => (last.cause = "ERR" /\ last.verdict # "AC" /\ ~last.counted)

\* t is s without its leading and trailing whitespace
IsTrimOf(t, s) ==
    \E i, j \in 0..Len(s) :
        /\ i + j <= Len(s)
        /\ \A k \in 1..i : s[k] \in Whitespace
        /\ \A k \in (Len(s) - j + 1)..Len(s) : s[k] \in Whitespace
        /\ t = SubSeq(s, i + 1, Len(s) - j)
        /\ (t = <<>> \/ (t[1] \notin Whitespace /\ t[Len(t)] \notin Whitespace))

Trimmed(s) ==
    CHOOSE t \in { SubSeq(s, i, j) : i \in 1..(Len(s) + 1), j \in 0..Len(s) } :
        IsTrimOf(t, s)

FatalErrorOccurred ==
    argError # "" \/ loadError # "" \/ (compiles > 0 /\ compileRc # 0)

\* C8: the exit code is 1 for every fatal loader, configuration or compile
\* error and 0 for every other run.
C8_ExitCodeReflectsFatalErrors ==
    pc = "exit" => exitCode = (IF FatalErrorOccurred THEN 1 ELSE 0)

InputEntries(tcs) ==
    { i \in 1..Len(tcs) : tcs[i].v.input # Absent \/ tcs[i].v.b_input # Absent }

\* C9: the number of testcases load_testcases returns for an archive equals
\* the number of archive entries that contain an input field.
C9_CountIsEntriesWithInput ==
    (loader = "tc" /\ archive # NoArchive)
        => Cardinality(DOMAIN testcases) = Cardinality(InputEntries(archive))

\* C9 as amended: the number of testcases equals the number of distinct text
\* ids the keys of the entries with an input field normalize to; entries
\* without an input field are skipped; of two entries whose keys normalize
\* to the same id the later one is kept.
C9_CountIsDistinctIdsWithInput ==
    (loader = "tc" /\ archive # NoArchive)
        => LET E == InputEntries(archive) IN
           /\ DOMAIN testcases = { Str(archive[i].k.s) : i \in E }
           /\ Cardinality(DOMAIN testcases) <= Cardinality(E)
           /\ \A i \in E :
                (\A j \in E : j > i => archive[j].k.s # archive[i].k.s)
                    => testcases[Str(archive[i].k.s)] = decodeEntry(archive[i].v)

C9_Witness ==
    /\ loader = "tc" /\ archive # NoArchive
    /\ Cardinality(InputEntries(archive)) = 2
    /\ Len(archive) = 2
    /\ archive[1].k.s = archive[2].k.s
    /\ Cardinality(DOMAIN testcases) = 1

CountAccepted(rs) == Cardinality({ i \in DOMAIN rs : rs[i] = "AC" })

\* C10: over n >= 1 loaded testcases, passed <= results so far <= total = n,
\* passed is the number of results so far whose verdict is ACCEPTED, and the
\* overall status is ALL_PASSED iff passed = total, ALL_FAILED iff
\* passed = 0, SOME_FAILED iff 0 < passed < total.
C10_SummaryInvariant ==
    (loader # "" /\ DOMAIN testcases # {})
        => /\ passed <= Len(results)
           /\ Len(results) <= total
           /\ total = Cardinality(DOMAIN testcases)
           /\ total >= 1
           /\ passed = CountAccepted(results)
           /\ summary # "NONE" =>
                /\ summary \in {"ALL_PASSED", "SOME_FAILED", "ALL_FAILED"}
                /\ summary = "ALL_PASSED" <=> passed = total
                /\ summary = "ALL_FAILED" <=> passed = 0
                /\ summary = "SOME_FAILED" <=> (0 < passed /\ passed < total)

C10_Witness ==
    summary = "SOME_FAILED" /\ passed = 1 /\ total = 2 /\ Len(results) = 2

====
